---- MODULE Spec2Model ----
(***************************************************************************)
(* Model of src/app.py: the two pure routines of the cutting optimizer,    *)
(*   find_all_cuts(raw_length, desired_cuts)   and                         *)
(*   suggest_optimal_quantities(raw_length),                               *)
(* each as a small state machine: one step on entry, one step per          *)
(* iteration of the inner `for combo in combinations_with_replacement`     *)
(* loop, and one step for the code after the loops up to the return.       *)
(*                                                                         *)
(* A Python dict is a sequence of <<key, value>> pairs with distinct keys  *)
(* (dicts iterate in insertion order).  A combo is a tuple of lengths;     *)
(* the iterator state of combinations_with_replacement is the tuple        *)
(* `indices` of positions in the pool, as in itertools.                    *)
(*                                                                         *)
(* efficiency = (total_length / raw_length) * 100 is a Python float.  It   *)
(* is kept as the exact value 100 * num / den, num and den integers (the   *)
(* factor 100 is left out of num to stay within TLC's 32-bit integers      *)
(* when two efficiencies are compared).  For the magnitudes of this        *)
(* program (lengths and raw lengths below 10^5) two different totals over  *)
(* the same raw length differ by far more than a float's rounding error,   *)
(* and total = raw gives exactly 100.0, so the order and the equality of   *)
(* the floats are those of the fractions.                                  *)
(***************************************************************************)
EXTENDS Integers, Sequences, FiniteSets, TLC

VARIABLES
    pc,                 \* position in the running routine
    raw_length,         \* argument of both routines
    desired_cuts,       \* argument of find_all_cuts: <<length, qty>> pairs
    available_lengths,  \* find_all_cuts local (line 16)
    max_pieces,         \* find_all_cuts local (line 22)
    combo_size,         \* loop variable of the outer for (lines 23, 60)
    indices,            \* iterator state of combinations_with_replacement
    results,            \* find_all_cuts local list (line 13)
    returned,           \* value returned by find_all_cuts (line 19 or 50)
    best_combo,         \* suggest_optimal_quantities local; <<>> is None
    best_efficiency,    \* suggest_optimal_quantities local
    suggested_cuts      \* value returned by suggest_optimal_quantities

vars == <<pc, raw_length, desired_cuts, available_lengths, max_pieces,
          combo_size, indices, results, returned, best_combo,
          best_efficiency, suggested_cuts>>

----------------------------------------------------------------------------
(* Bounds of the model.                                                    *)

\* Quantities of a desired length range over 0..MaxQty.
MaxQty == 3

\* find_all_cuts is called with raw_length in {2000, 4000, ...,
\* 2000 * MaxRawSteps}.
MaxRawSteps == 4

\* suggest_optimal_quantities is called with the boundary raw lengths of
\* SuggestRawInputs and with 500, 1000, ..., 500 * MaxSuggestSteps.
MaxSuggestSteps == 20

\* The lengths that the keys of desired_cuts are drawn from.
LengthPool == {1000, 2000, 3000}

RawInputs == {2000 * k : k \in 1..MaxRawSteps}

----------------------------------------------------------------------------
(* Program constants.                                                      *)

CUT_LENGTHS ==
    <<515, 1025, 1145, 1835, 2045, 2075, 2165, 2515, 2835, 3575,
      3695, 3755, 3815, 4085, 4155, 4225, 5015, 5375, 5515, 6000>>

\* results[:5]
TopCount == 5

----------------------------------------------------------------------------
(* Python built-ins used by the code.                                      *)

Range(s) == {s[i] : i \in DOMAIN s}

RECURSIVE SumSeq(_)
\* sum(combo)
SumSeq(s) == IF s = <<>> THEN 0 ELSE s[1] + SumSeq(Tail(s))

\* Counter(combo)[x]
Count(s, x) == Cardinality({i \in DOMAIN s : s[i] = x})

\* desired_cuts[length]
Lookup(d, length) == d[CHOOSE i \in DOMAIN d : d[i][1] = length][2]

RECURSIVE SelectPositive(_)
\* [length for length, qty in desired_cuts.items() if qty > 0]
SelectPositive(d) ==
    IF d = <<>> THEN <<>>
    ELSE IF d[1][2] > 0 THEN <<d[1][1]>> \o SelectPositive(Tail(d))
         ELSE SelectPositive(Tail(d))

RECURSIVE SumValues(_)
\* sum(desired_cuts.values())
SumValues(d) == IF d = <<>> THEN 0 ELSE d[1][2] + SumValues(Tail(d))

\* itertools.combinations_with_replacement(pool, r): the first index tuple
FirstIndices(r) == [i \in 1..r |-> 1]

\* itertools.combinations_with_replacement: the index tuple after ind over a
\* pool of n elements, <<>> when the iterator is exhausted.  The rightmost
\* index that is not yet n is incremented and copied to its right.
NextIndices(ind, n) ==
    LET r == Len(ind)
        S == {i \in 1..r : ind[i] # n}
    IN  IF S = {} THEN <<>>
        ELSE LET i == CHOOSE k \in S : \A m \in S : m <= k
             IN  [j \in 1..r |-> IF j < i THEN ind[j] ELSE ind[i] + 1]

\* the combo an index tuple stands for
ComboOf(pool, ind) == [i \in 1..Len(ind) |-> pool[ind[i]]]

----------------------------------------------------------------------------
(* Efficiency: the record [num, den] stands for the value 100 * num / den. *)

\* efficiency = (total_length / raw_length) * 100
Efficiency(total_length, raw) == [num |-> total_length, den |-> raw]

\* best_efficiency = 0
ZeroEfficiency == [num |-> 0, den |-> 1]

\* a > b and a == b on efficiencies with positive den
EffGT(a, b) == a.num * b.den > b.num * a.den
EffEQ(a, b) == a.num * b.den = b.num * a.den

----------------------------------------------------------------------------
(* find_all_cuts (lines 9-50).                                             *)

\* line 16
AvailableLengths(d) == SelectPositive(d)

\* faulty variant of MaxPieces: the number of lengths instead of the sum of
\* the quantities
MaxPieces_KeyCount(d) == Len(d)

\* line 22
MaxPieces(d) == SumValues(d)

\* faulty variant of CutsFits: the raw length is not checked
CutsFits_Always(total_length, raw) == TRUE

\* line 28: if total_length <= raw_length
CutsFits(total_length, raw) == total_length <= raw

\* faulty variant of QuantityValid: the quantities are not checked
QuantityValid_Unchecked(combo, d) == TRUE

\* lines 30-35: no length is needed more often than desired_cuts has it
QuantityValid(combo, d) ==
    \A length \in Range(combo) : ~ (Count(combo, length) > Lookup(d, length))

\* faulty variant of Waste: the operands swapped
Waste_Swapped(raw, total_length) == total_length - raw

\* line 38
Waste(raw, total_length) == raw - total_length

\* lines 40-46: the dict appended to results
ResultEntry(combo, raw) ==
    LET total_length == SumSeq(combo)
    IN  [combination  |-> combo,
         total_length |-> total_length,
         waste        |-> Waste(raw, total_length),
         efficiency   |-> Efficiency(total_length, raw),
         pieces       |-> Len(combo)]

\* faulty variant of SortKeyLess: efficiency ascending
SortKeyLess_Ascending(a, b) ==
    \/ EffGT(b.efficiency, a.efficiency)
    \/ /\ EffEQ(a.efficiency, b.efficiency)
       /\ a.waste < b.waste

\* line 49: the sort key (-efficiency, waste) of a is smaller than that of b
SortKeyLess(a, b) ==
    \/ EffGT(a.efficiency, b.efficiency)
    \/ /\ EffEQ(a.efficiency, b.efficiency)
       /\ a.waste < b.waste

\* faulty variant of InsertStable, an unstable sort: x goes before the
\* elements of equal key
InsertStable_BeforeEqual(sorted, x) ==
    LET later == {i \in DOMAIN sorted : ~ SortKeyLess(sorted[i], x)}
        at    == IF later = {} THEN Len(sorted) + 1
                 ELSE CHOOSE i \in later : \A j \in later : i <= j
    IN  SubSeq(sorted, 1, at - 1) \o <<x>> \o SubSeq(sorted, at, Len(sorted))

\* list.sort is stable: x goes before the first element whose key is
\* greater, so behind every element of equal key that came before it
InsertStable(sorted, x) ==
    LET later == {i \in DOMAIN sorted : SortKeyLess(x, sorted[i])}
        at    == IF later = {} THEN Len(sorted) + 1
                 ELSE CHOOSE i \in later : \A j \in later : i <= j
    IN  SubSeq(sorted, 1, at - 1) \o <<x>> \o SubSeq(sorted, at, Len(sorted))

RECURSIVE SortFrom(_, _)
SortFrom(sorted, rest) ==
    IF rest = <<>> THEN sorted
    ELSE SortFrom(InsertStable(sorted, rest[1]), Tail(rest))

\* line 49: results.sort(key=...)
SortResults(rs) == SortFrom(<<>>, rs)

\* faulty variant of TopResults: results[:1]
TopResults_First(rs) == SubSeq(rs, 1, IF Len(rs) < 1 THEN Len(rs) ELSE 1)

\* line 50: results[:5]
TopResults(rs) == SubSeq(rs, 1, IF Len(rs) < TopCount THEN Len(rs) ELSE TopCount)

\* The loop position after the combo `indices`: the next combo of this
\* size, else the first combo of the next size, else the end of the loops.
\* A pool is never empty here and a size is at least 1.
Advance(ind, size, n, last_size) ==
    LET nxt == NextIndices(ind, n)
    IN  IF nxt # <<>> THEN [size |-> size, ind |-> nxt, more |-> TRUE]
        ELSE IF size + 1 <= last_size
             THEN [size |-> size + 1, ind |-> FirstIndices(size + 1), more |-> TRUE]
             ELSE [size |-> size, ind |-> ind, more |-> FALSE]

\* lines 13-23: entry, up to the first combo or the early return
CutsEnter ==
    /\ pc = "cuts_start"
    /\ results' = <<>>
    /\ available_lengths' = AvailableLengths(desired_cuts)
    /\ IF available_lengths' = <<>>
       THEN /\ returned' = <<>>
            /\ pc' = "done"
            /\ UNCHANGED <<max_pieces, combo_size, indices>>
       ELSE /\ max_pieces' = MaxPieces(desired_cuts)
            /\ IF 1 <= max_pieces'
               THEN /\ combo_size' = 1
                    /\ indices' = FirstIndices(1)
                    /\ pc' = "cuts_loop"
               ELSE /\ pc' = "cuts_sort"
                    /\ UNCHANGED <<combo_size, indices>>
            /\ UNCHANGED returned
    /\ UNCHANGED <<raw_length, desired_cuts, best_combo, best_efficiency,
                   suggested_cuts>>

\* lines 24-46: one iteration of the inner loop, and the step to the next
CutsIter ==
    /\ pc = "cuts_loop"
    /\ LET combo == ComboOf(available_lengths, indices)
           total_length == SumSeq(combo)
           step == Advance(indices, combo_size, Len(available_lengths), max_pieces)
       IN  /\ results' =
                 IF CutsFits(total_length, raw_length) /\ QuantityValid(combo, desired_cuts)
                 THEN Append(results, ResultEntry(combo, raw_length))
                 ELSE results
           /\ combo_size' = step.size
           /\ indices' = step.ind
           /\ pc' = IF step.more THEN "cuts_loop" ELSE "cuts_sort"
    /\ UNCHANGED <<raw_length, desired_cuts, available_lengths, max_pieces,
                   returned, best_combo, best_efficiency, suggested_cuts>>

\* lines 49-50: sort and return the first five
CutsReturn ==
    /\ pc = "cuts_sort"
    /\ results' = SortResults(results)
    /\ returned' = TopResults(results')
    /\ pc' = "done"
    /\ UNCHANGED <<raw_length, desired_cuts, available_lengths, max_pieces,
                   combo_size, indices, best_combo, best_efficiency,
                   suggested_cuts>>

\* The mappings find_all_cuts is called with: the keys are distinct lengths
\* of LengthPool in any order, the quantities are in 0..MaxQty.
KeySeqs ==
    UNION {{ks \in [1..k -> LengthPool] : \A i, j \in 1..k : i # j => ks[i] # ks[j]}
           : k \in 0..Cardinality(LengthPool)}

DesiredInputs ==
    UNION {{[i \in 1..Len(ks) |-> <<ks[i], q[i]>>] : q \in [1..Len(ks) -> 0..MaxQty]}
           : ks \in KeySeqs}

InitCuts ==
    /\ pc = "cuts_start"
    /\ raw_length \in RawInputs
    /\ desired_cuts \in DesiredInputs
    /\ available_lengths = <<>>
    /\ max_pieces = 0
    /\ combo_size = 0
    /\ indices = <<>>
    /\ results = <<>>
    /\ returned = <<>>
    /\ best_combo = <<>>
    /\ best_efficiency = ZeroEfficiency
    /\ suggested_cuts = <<>>

NextCuts == CutsEnter \/ CutsIter \/ CutsReturn

SpecCuts == InitCuts /\ [][NextCuts]_vars

----------------------------------------------------------------------------
(* suggest_optimal_quantities (lines 52-76).                               *)

\* faulty variant of SuggestSizes: range(1, 5)
SuggestSizes_FromOne == 1..4

\* line 60: range(2, 5)
SuggestSizes == 2..4

\* faulty variant of SuggestFits: the raw length is not checked
SuggestFits_Always(total_length, raw) == TRUE

\* line 63: if total_length <= raw_length
SuggestFits(total_length, raw) == total_length <= raw

\* faulty variant of Improves: >= instead of >
Improves_OrEqual(efficiency, best) == ~ EffGT(best, efficiency)

\* line 65: if efficiency > best_efficiency
Improves(efficiency, best) == EffGT(efficiency, best)

\* lines 70-74: every catalog length at 0, then the counts of best_combo;
\* `if best_combo` is false for None, modelled as <<>>
SuggestedCuts(best) ==
    [length \in Range(CUT_LENGTHS) |->
        IF best # <<>> /\ length \in Range(best) THEN Count(best, length) ELSE 0]

FirstSize(sizes) == CHOOSE k \in sizes : \A m \in sizes : k <= m
LastSize(sizes) == CHOOSE k \in sizes : \A m \in sizes : m <= k

\* lines 56-61: entry, up to the first combo
SuggestEnter ==
    /\ pc = "suggest_start"
    /\ best_combo' = <<>>
    /\ best_efficiency' = ZeroEfficiency
    /\ combo_size' = FirstSize(SuggestSizes)
    /\ indices' = FirstIndices(combo_size')
    /\ pc' = "suggest_loop"
    /\ UNCHANGED <<raw_length, desired_cuts, available_lengths, max_pieces,
                   results, returned, suggested_cuts>>

\* lines 61-67: one iteration of the inner loop, and the step to the next
SuggestIter ==
    /\ pc = "suggest_loop"
    /\ LET combo == ComboOf(CUT_LENGTHS, indices)
           total_length == SumSeq(combo)
           efficiency == Efficiency(total_length, raw_length)
           better == /\ SuggestFits(total_length, raw_length)
                     /\ Improves(efficiency, best_efficiency)
           step == Advance(indices, combo_size, Len(CUT_LENGTHS), LastSize(SuggestSizes))
       IN  /\ best_efficiency' = IF better THEN efficiency ELSE best_efficiency
           /\ best_combo' = IF better THEN combo ELSE best_combo
           /\ combo_size' = step.size
           /\ indices' = step.ind
           /\ pc' = IF step.more THEN "suggest_loop" ELSE "suggest_convert"
    /\ UNCHANGED <<raw_length, desired_cuts, available_lengths, max_pieces,
                   results, returned, suggested_cuts>>

\* lines 70-76: convert the best combo to quantities and return them
SuggestReturn ==
    /\ pc = "suggest_convert"
    /\ suggested_cuts' = SuggestedCuts(best_combo)
    /\ pc' = "done"
    /\ UNCHANGED <<raw_length, desired_cuts, available_lengths, max_pieces,
                   combo_size, indices, results, returned, best_combo,
                   best_efficiency>>

\* The raw lengths suggest_optimal_quantities is called with: the smallest
\* positive one, the smallest the input widget allows (100), those around
\* the smallest catalog length and twice it, two raw lengths whose best
\* total is reached by several multisets (3075 and 4220), and a regular
\* grid up to the largest the input widget allows (10000).
SuggestRawInputs ==
    {1, 100, 514, 515, 1029, 1030, 3075, 4220}
        \cup {500 * k : k \in 1..MaxSuggestSteps}

InitSuggest ==
    /\ pc = "suggest_start"
    /\ raw_length \in SuggestRawInputs
    /\ desired_cuts = <<>>
    /\ available_lengths = <<>>
    /\ max_pieces = 0
    /\ combo_size = 0
    /\ indices = <<>>
    /\ results = <<>>
    /\ returned = <<>>
    /\ best_combo = <<>>
    /\ best_efficiency = ZeroEfficiency
    /\ suggested_cuts = <<>>

NextSuggest == SuggestEnter \/ SuggestIter \/ SuggestReturn

SpecSuggest == InitSuggest /\ [][NextSuggest]_vars

----------------------------------------------------------------------------
(* Properties of find_all_cuts, stated on the returned value.               *)

Done == pc = "done"

\* the lengths of desired_cuts with a positive quantity, in key order
KeyOrder == SelectPositive(desired_cuts)

Keys == {desired_cuts[i][1] : i \in DOMAIN desired_cuts}

PosOf(ks, length) == CHOOSE i \in DOMAIN ks : ks[i] = length

RECURSIVE ComboOfBag(_, _)
\* the tuple of a multiset b over the lengths ks: its lengths in key order
ComboOfBag(b, ks) ==
    IF ks = <<>> THEN <<>>
    ELSE [i \in 1..b[ks[1]] |-> ks[1]] \o ComboOfBag(b, Tail(ks))

\* every multiset over the positive-quantity lengths that is not empty,
\* respects every quantity and fits the raw length, as a tuple in key order
FeasibleCombos ==
    LET bags == [Range(KeyOrder) -> 0..MaxQty]
        all  == {ComboOfBag(b, KeyOrder) : b \in
                   {c \in bags : \A l \in Range(KeyOrder) : c[l] <= Lookup(desired_cuts, l)}}
    IN  {c \in all : c # <<>> /\ SumSeq(c) <= raw_length}

ReturnedCombos == {returned[i].combination : i \in DOMAIN returned}

LexLess(x, y) ==
    \E i \in 1..Len(x) : x[i] < y[i] /\ \A j \in 1..(i - 1) : x[j] = y[j]

\* combo a is generated before combo b: a smaller size first, and within a
\* size the order of combinations_with_replacement over the key order
GenBefore(a, b) ==
    \/ Len(a) < Len(b)
    \/ /\ Len(a) = Len(b)
       /\ LexLess([i \in 1..Len(a) |-> PosOf(KeyOrder, a[i])],
                  [i \in 1..Len(b) |-> PosOf(KeyOrder, b[i])])

\* C1: every returned combination uses each length at most as often as
\* desired_cuts allows, and uses no length of quantity 0.
C1_QuantityRespected ==
    Done =>
        \A i \in DOMAIN returned :
            \A length \in Range(returned[i].combination) :
                /\ length \in Keys
                /\ Lookup(desired_cuts, length) > 0
                /\ Count(returned[i].combination, length) <= Lookup(desired_cuts, length)

\* a returned combination uses up the whole quantity (2 or more) of a
\* length, and the mapping also holds a length of quantity 0
C1_Witness ==
    /\ Done
    /\ \E k \in DOMAIN desired_cuts : desired_cuts[k][2] = 0
    /\ \E i \in DOMAIN returned :
           \E length \in Range(returned[i].combination) :
               /\ Lookup(desired_cuts, length) >= 2
               /\ Count(returned[i].combination, length) = Lookup(desired_cuts, length)

\* C2: every returned entry has total_length = sum of its pieces, pieces =
\* its number of pieces, waste = raw_length - total_length >= 0, and
\* 0 < total_length <= raw_length, so that its efficiency
\* 100 * total_length / raw_length lies in (0, 100].
C2_ScoresConsistent ==
    Done =>
        \A i \in DOMAIN returned :
            LET r == returned[i]
            IN  /\ r.total_length = SumSeq(r.combination)
                /\ r.pieces = Len(r.combination)
                /\ r.waste = raw_length - r.total_length
                /\ r.waste >= 0
                /\ 0 < r.total_length /\ r.total_length <= raw_length
                /\ r.efficiency.den > 0
                /\ r.efficiency.num * raw_length = r.total_length * r.efficiency.den
                /\ 0 < r.efficiency.num /\ r.efficiency.num <= r.efficiency.den

\* an entry with waste and an entry without are returned
C2_Witness ==
    /\ Done
    /\ \E i \in DOMAIN returned : returned[i].waste > 0
    /\ \E i \in DOMAIN returned : returned[i].waste = 0

\* C3: the returned sequence is sorted best first: efficiency (and so
\* total_length) never increases from an entry to the next, and where two
\* neighbours have equal efficiency the waste does not decrease.
C3_SortedBestFirst ==
    Done =>
        \A i \in 1..(Len(returned) - 1) :
            /\ ~ EffGT(returned[i + 1].efficiency, returned[i].efficiency)
            /\ returned[i].total_length >= returned[i + 1].total_length
            /\ EffEQ(returned[i].efficiency, returned[i + 1].efficiency)
                   => returned[i].waste <= returned[i + 1].waste

\* five entries are returned, with a strict drop and with a tie among them,
\* out of a results list that was not in sorted order when the loops ended
C3_Witness ==
    /\ Done
    /\ Len(returned) = TopCount
    /\ \E i \in 1..(Len(returned) - 1) :
           EffGT(returned[i].efficiency, returned[i + 1].efficiency)
    /\ \E i \in 1..(Len(returned) - 1) :
           EffEQ(returned[i].efficiency, returned[i + 1].efficiency)
    /\ returned[1].pieces > 1

\* C4: with N the number of feasible multisets, exactly min(5, N) entries
\* are returned, each a feasible multiset, no two the same, and no feasible
\* multiset left out has a larger total than a returned one.
C4_TopFive ==
    Done =>
        LET N == Cardinality(FeasibleCombos)
        IN  /\ Len(returned) = IF N < TopCount THEN N ELSE TopCount
            /\ Len(returned) <= TopCount
            /\ ReturnedCombos \subseteq FeasibleCombos
            /\ Cardinality(ReturnedCombos) = Len(returned)
            /\ \A c \in FeasibleCombos \ ReturnedCombos :
                   \A i \in DOMAIN returned : SumSeq(c) <= returned[i].total_length

\* more than five multisets are feasible and five are returned
C4_Witness ==
    /\ Done
    /\ Cardinality(FeasibleCombos) > TopCount
    /\ Len(returned) = TopCount

\* C5: the empty sequence is returned when desired_cuts is empty, when all
\* its quantities are 0, and when raw_length is smaller than every length
\* of positive quantity.
C5_EmptyWhenInfeasible ==
    (/\ Done
     /\ \/ desired_cuts = <<>>
        \/ \A k \in DOMAIN desired_cuts : desired_cuts[k][2] = 0
        \/ \A k \in DOMAIN desired_cuts :
               desired_cuts[k][2] > 0 => raw_length < desired_cuts[k][1])
    => returned = <<>>

\* a call returned with lengths of positive quantity, all above raw_length
C5_Witness ==
    /\ Done
    /\ KeyOrder # <<>>
    /\ \A k \in DOMAIN desired_cuts :
           desired_cuts[k][2] > 0 => raw_length < desired_cuts[k][1]
    /\ returned = <<>>

\* C6 as claimed: raw_length = 6000 and desired_cuts = {3000: 2} give the
\* single result (3000, 3000) with total 6000, waste 0 and efficiency 100.
C6_SingleResult ==
    (Done /\ raw_length = 6000 /\ desired_cuts = << <<3000, 2>> >>) =>
        returned = << [combination  |-> <<3000, 3000>>,
                       total_length |-> 6000,
                       waste        |-> 0,
                       efficiency   |-> [num |-> 6000, den |-> 6000],
                       pieces       |-> 2] >>

\* C6 amended: raw_length = 6000 and desired_cuts = {3000: 2} give two
\* results: first (3000, 3000) with total 6000, waste 0 and efficiency 100,
\* then (3000,) with total 3000, waste 3000 and efficiency 50.
C6_TwoResults ==
    (Done /\ raw_length = 6000 /\ desired_cuts = << <<3000, 2>> >>) =>
        /\ Len(returned) = 2
        /\ returned[1].combination = <<3000, 3000>>
        /\ returned[1].total_length = 6000
        /\ returned[1].waste = 0
        /\ returned[1].pieces = 2
        /\ returned[1].efficiency.num * 100 = 100 * returned[1].efficiency.den
        /\ returned[2].combination = <<3000>>
        /\ returned[2].total_length = 3000
        /\ returned[2].waste = 3000
        /\ returned[2].pieces = 1
        /\ returned[2].efficiency.num * 100 = 50 * returned[2].efficiency.den

\* the call of the example has returned
C6_Witness ==
    /\ Done
    /\ raw_length = 6000
    /\ desired_cuts = << <<3000, 2>> >>
    /\ returned # <<>>

\* C10: the returned entries are pairwise different multisets, each in key
\* order; of two neighbours with equal total the earlier generated one
\* comes first (fewer pieces first, then combinations_with_replacement
\* order); and a feasible multiset left out with the total of the last
\* returned entry was generated after every returned entry of that total.
C10_TiesByGeneration ==
    Done =>
        /\ \A i, j \in DOMAIN returned :
               i # j => \E l \in Range(KeyOrder) :
                   Count(returned[i].combination, l) # Count(returned[j].combination, l)
        /\ \A i \in DOMAIN returned :
               LET c == returned[i].combination
               IN  \A k \in 1..(Len(c) - 1) : PosOf(KeyOrder, c[k]) <= PosOf(KeyOrder, c[k + 1])
        /\ \A i \in 1..(Len(returned) - 1) :
               returned[i].total_length = returned[i + 1].total_length
                   => GenBefore(returned[i].combination, returned[i + 1].combination)
        /\ \A c \in FeasibleCombos \ ReturnedCombos :
               \A i \in DOMAIN returned :
                   SumSeq(c) = returned[i].total_length
                       => GenBefore(returned[i].combination, c)

\* a group of equal totals straddles the cut-off after five entries, two
\* returned neighbours tie with the same number of pieces, two tie with
\* different numbers of pieces, and the keys are not in increasing order
C10_Witness ==
    /\ Done
    /\ Len(returned) = TopCount
    /\ \E c \in FeasibleCombos \ ReturnedCombos :
           SumSeq(c) = returned[TopCount].total_length
    /\ \E i \in 1..(Len(returned) - 1) :
           /\ returned[i].total_length = returned[i + 1].total_length
           /\ returned[i].pieces = returned[i + 1].pieces
    /\ \E i \in 1..(Len(returned) - 1) :
           /\ returned[i].total_length = returned[i + 1].total_length
           /\ returned[i].pieces < returned[i + 1].pieces
    /\ \E k \in 1..(Len(KeyOrder) - 1) : KeyOrder[k] > KeyOrder[k + 1]

----------------------------------------------------------------------------
(* Properties of suggest_optimal_quantities, stated on the returned value. *)

CatalogSet == Range(CUT_LENGTHS)

RECURSIVE WeightedSum(_, _)
\* the sum of length * quantity over the lengths of the sequence ls
WeightedSum(q, ls) ==
    IF ls = <<>> THEN 0 ELSE ls[1] * q[ls[1]] + WeightedSum(q, Tail(ls))

RECURSIVE QuantitySum(_, _)
\* the sum of the quantities over the lengths of the sequence ls
QuantitySum(q, ls) ==
    IF ls = <<>> THEN 0 ELSE q[ls[1]] + QuantitySum(q, Tail(ls))

AllZero(q) == \A length \in DOMAIN q : q[length] = 0

\* the multisets of 2, 3 and 4 catalog lengths, as non-decreasing tuples of
\* positions in CUT_LENGTHS
CatalogTuples ==
    LET I == 1..Len(CUT_LENGTHS)
    IN  {t \in I \X I : t[1] <= t[2]}
        \cup {t \in I \X I \X I : t[1] <= t[2] /\ t[2] <= t[3]}
        \cup {t \in I \X I \X I \X I : t[1] <= t[2] /\ t[2] <= t[3] /\ t[3] <= t[4]}

TupleTotal(t) == SumSeq(ComboOf(CUT_LENGTHS, t))

FeasibleTuples == {t \in CatalogTuples : TupleTotal(t) <= raw_length}

\* the feasible tuples of the largest total
BestTuples ==
    LET F == FeasibleTuples
        best == CHOOSE t \in F : \A o \in F : TupleTotal(o) <= TupleTotal(t)
    IN  {t \in F : TupleTotal(t) = TupleTotal(best)}

\* tuple a is generated before tuple b: sizes in increasing order, within a
\* size the order of combinations_with_replacement
TupleBefore(a, b) == Len(a) < Len(b) \/ (Len(a) = Len(b) /\ LexLess(a, b))

\* C7: the returned mapping has exactly the 20 catalog lengths as keys,
\* every value is a non-negative integer, and the sum of length * quantity
\* does not exceed raw_length.
C7_CompleteMapping ==
    Done =>
        /\ DOMAIN suggested_cuts = CatalogSet
        /\ Cardinality(DOMAIN suggested_cuts) = 20
        /\ \A length \in CatalogSet : suggested_cuts[length] \in Nat
        /\ WeightedSum(suggested_cuts, CUT_LENGTHS) <= raw_length

\* a mapping with pieces in it was returned and it leaves waste
C7_Witness ==
    /\ Done
    /\ DOMAIN suggested_cuts = CatalogSet
    /\ ~ AllZero(suggested_cuts)
    /\ WeightedSum(suggested_cuts, CUT_LENGTHS) < raw_length

\* C8: when a multiset of 2 to 4 catalog lengths fits, the returned mapping
\* is that of a multiset of 2 to 4 lengths whose total is the largest
\* feasible one, namely of the first generated among those of that total.
C8_FirstBestWins ==
    (Done /\ FeasibleTuples # {}) =>
        LET B == BestTuples
            first == CHOOSE w \in B : \A o \in B \ {w} : TupleBefore(w, o)
        IN  /\ \A k \in 1..Len(CUT_LENGTHS) :
                   suggested_cuts[CUT_LENGTHS[k]] = Count(first, k)
            /\ QuantitySum(suggested_cuts, CUT_LENGTHS) \in 2..4
            /\ WeightedSum(suggested_cuts, CUT_LENGTHS) = TupleTotal(first)
            /\ \A t \in FeasibleTuples :
                   TupleTotal(t) <= WeightedSum(suggested_cuts, CUT_LENGTHS)

\* the largest feasible total is reached by multisets of different sizes
C8_Witness ==
    /\ Done
    /\ FeasibleTuples # {}
    /\ \E a, b \in BestTuples : Len(a) < Len(b)
    /\ ~ AllZero(suggested_cuts)

\* C9: the all-zero mapping is returned exactly when raw_length is below
\* twice the smallest catalog length (1030); from 1030 on the returned
\* quantities add up to 2, 3 or 4 pieces.
C9_ZeroBelowTwoPieces ==
    Done =>
        /\ AllZero(suggested_cuts) <=> raw_length < 1030
        /\ raw_length >= 1030 =>
               QuantitySum(suggested_cuts, CUT_LENGTHS) \in 2..4

\* the all-zero mapping was returned for a raw length that one catalog piece
\* fits
C9_Witness ==
    /\ Done
    /\ raw_length >= CUT_LENGTHS[1]
    /\ raw_length < 2 * CUT_LENGTHS[1]
    /\ DOMAIN suggested_cuts = CatalogSet
    /\ AllZero(suggested_cuts)

====
